---- MODULE Spec2Model ----
(***************************************************************************)
(* Biomass Route Optimizer: Streamlit_app_1.py and its predecessor         *)
(* Streamlit_app.py.                                                       *)
(*                                                                         *)
(* One run of Streamlit_app_1.py: a supplier table is uploaded and         *)
(* validated, the user picks a biomass type and presses "Generate Routes"; *)
(* oversized suppliers are split, the demand vector is built, the          *)
(* capacitated routing problem is handed to the OR-tools solver and the    *)
(* result loop turns the solver's routes into the rows of the result       *)
(* table.  Streamlit_app.py does the same on a table written in the        *)
(* script, without upload, splitting or utilization.                       *)
(*                                                                         *)
(* A DataFrame is a record [cols, rows]: the set of column names and the   *)
(* sequence of rows, each row a function from column name to value.        *)
(* Quantities are integers (the input contract: integer kilograms).        *)
(* The geodesic distance matrix only decides which of the feasible         *)
(* solutions the solver prefers; the solver is modelled as a choice among  *)
(* all of them, so distances are not part of the state.                    *)
(***************************************************************************)
EXTENDS Integers, Sequences, FiniteSets, TLC

VARIABLES
    app,              \* the script that runs
    pc,               \* position in the script
    tractor_capacity, \* the number_input value
    df_full,          \* the uploaded table
    biomass_type,     \* the selectbox value
    df,               \* the filtered and split table
    demands,          \* the demand vector handed to the capacity dimension
    num_vehicles,     \* len(df)
    solution,         \* the solver's routes, one per vehicle slot, or NoSolution
    vehicle_id,       \* result-loop counter
    route,            \* the route of the vehicle slot walked last
    load_this_route,  \* its load
    utilization,      \* its utilization
    tractor_count,    \* next route number
    route_data,       \* rows of the result table
    routes_found,     \* the count shown by st.success
    outcome           \* what the run showed

vars == <<app, pc, tractor_capacity, df_full, biomass_type, df, demands, num_vehicles,
          solution, vehicle_id, route, load_this_route, utilization,
          tractor_count, route_data, routes_found, outcome>>

----------------------------------------------------------------------------
(* Column names *)

ColName == "Supplier Name (Farmer Name)"
ColLat  == "Latitude of the location"
ColLon  == "Longitude of the location"
ColType == "Biomass Type"
ColKg   == "Biomass Quantity (kg)"
ColBQ   == "Biomass Quantity"

required_cols == {ColName, ColLat, ColLon, ColType, ColKg}

App0 == "Streamlit_app"
App1 == "Streamlit_app_1"

\* the columns of the table of Streamlit_app.py
data_columns == {"Name", "Latitude", "Longitude", "Type", "Quantity"}

\* the column holding the supplier name, the biomass type, the quantity shown
NameCol(a) == IF a = App1 THEN ColName ELSE "Name"
TypeCol(a) == IF a = App1 THEN ColType ELSE "Type"
QtyCol(a)  == IF a = App1 THEN ColKg ELSE "Quantity"

DataRow(name, lat, lon, type, qty) ==
    [c \in data_columns |->
        CASE c = "Name"      -> name
          [] c = "Latitude"  -> lat
          [] c = "Longitude" -> lon
          [] c = "Type"      -> type
          [] c = "Quantity"  -> qty]

\* the table of Streamlit_app.py, coordinates in millionths of a degree
data == <<
    DataRow("John",  14111326, 79814047, "Cotton", 900),
    DataRow("Khan",  14088685, 79768994, "Cotton", 800),
    DataRow("Chan",  14111699, 79738138, "Cotton", 1500),
    DataRow("Saran", 14093327, 79752420, "Cotton", 600),
    DataRow("kiran", 14103650, 79787511, "Cotton", 2000),
    DataRow("F1",    14128395, 79763032, "Cotton", 900),
    DataRow("F2",    14120990, 79853734, "Cotton", 1200),
    DataRow("F3",    14030065, 79823203, "Cotton", 1800),
    DataRow("F4",    14011394, 79879007, "Cotton", 1100),
    DataRow("F5",    14034023, 79883283, "Cotton", 1300),
    DataRow("M1",    14101598, 79848863, "Chilli", 750),
    DataRow("M2",    14118970, 79857535, "Chilli", 1450),
    DataRow("M3",    14171996, 79790080, "Chilli", 700),
    DataRow("M4",    14170540, 79742417, "Chilli", 800),
    DataRow("M5",    14119828, 79733434, "Chilli", 600),
    DataRow("M6",    14094221, 79721397, "Chilli", 1600) >>

None == "None"
NoSolution == "NoSolution"
EmptyFrame == [cols |-> {}, rows |-> <<>>]

----------------------------------------------------------------------------
(* Bounds and input sets *)

MaxRows  == 3   \* rows of an uploaded table
MaxNodes == 3   \* demand nodes of an uploaded table after splitting
MaxLen   == 2   \* demands handed to the splitter on its own

\* tractor_capacity: number_input(min_value=100, step=100, value=2000)
Capacities == {1000, 2000}
\* vehicle_capacity of Streamlit_app.py: number_input(value=2000, step=100).
\* Below 1600 no solution exists; from 2000 on the ten Cotton suppliers have
\* more solutions than can be enumerated.
VehicleCapacities == {1000, 1600}
BiomassTypes == {"Cotton", "Chilli"}
\* values of the two quantity columns of an uploaded table
Quantities == {600, 1500, 4500}
\* column sets of an uploaded table: the required columns, the required
\* columns plus the 'Biomass Quantity' column the caption asks for, and the
\* caption's columns alone
ColumnSets == {required_cols,
               required_cols \cup {ColBQ},
               (required_cols \ {ColKg}) \cup {ColBQ}}

\* inputs of the splitter on its own
SplitCapacities == {100, 2000}
SplitQuantities == {-5, 0, 1, 100, 250, 2000, 4000, 4500}

\* row i of a table: supplier "S<i>" at coordinate (i, i)
MkRow(cols, i, type, kg, bq) ==
    [c \in cols |->
        CASE c = ColName -> "S" \o ToString(i)
          [] c = ColLat  -> i
          [] c = ColLon  -> i
          [] c = ColType -> type
          [] c = ColKg   -> kg
          [] c = ColBQ   -> bq]

MkFrame(cols, n, types, kgs, bqs) ==
    [cols |-> cols,
     rows |-> [i \in 1..n |-> MkRow(cols, i, types[i], kgs[i], bqs[i])]]

----------------------------------------------------------------------------
(* split_oversized_suppliers *)

\* mutant of SplitLabel: the label carries the loop index i, not i + 1
SplitLabelFromZero(n) == " (Split-" \o ToString(n - 1) \o ")"

\* f" (Split-{i+1})" for the n-th full chunk (n = i + 1)
SplitLabel(n) == " (Split-" \o ToString(n) \o ")"

RECURSIVE FullChunks(_, _, _)
\* the loop "for i in range(int(n_chunks))", chunks 1..n in order
FullChunks(row, capacity, n) ==
    IF n <= 0 THEN <<>>
    ELSE Append(FullChunks(row, capacity, n - 1),
                [row EXCEPT ![ColKg] = capacity,
                            ![ColName] = @ \o SplitLabel(n)])

\* mutant of RemainderChunk: the remaining load is never emitted
RemainderChunkDropped(row, remainder) == <<>>

\* the "Remaining load" block
RemainderChunk(row, remainder) ==
    IF remainder > 0
    THEN <<[row EXCEPT ![ColKg] = remainder,
                       ![ColName] = @ \o " (Split-R)"]>>
    ELSE <<>>

\* the body of "for idx, row in df.iterrows()": the rows one input row adds.
\* capacity > 0 and qty > capacity here, so // and % are \div and %.
SplitRow(row, capacity) ==
    LET qty == row[ColKg] IN
    IF qty <= capacity
    THEN <<row>>
    ELSE LET n_chunks  == qty \div capacity
             remainder == qty % capacity
         IN FullChunks(row, capacity, n_chunks) \o RemainderChunk(row, remainder)

RECURSIVE SplitRows(_, _)
SplitRows(rows, capacity) ==
    IF rows = <<>> THEN <<>>
    ELSE SplitRow(Head(rows), capacity) \o SplitRows(Tail(rows), capacity)

\* pd.DataFrame(new_rows): the columns are those of the rows; an empty list
\* of rows gives a frame with no columns at all.
split_oversized_suppliers(frame, capacity) ==
    LET new_rows == SplitRows(frame.rows, capacity) IN
    [cols |-> IF new_rows = <<>> THEN {} ELSE frame.cols,
     rows |-> new_rows]

----------------------------------------------------------------------------
(* The solver *)

RECURSIVE SumSeq(_)
SumSeq(s) == IF s = <<>> THEN 0 ELSE Head(s) + SumSeq(Tail(s))

\* demands[manager.IndexToNode(i)] along the stops of one vehicle
TransitsOf(stops, dem) == [k \in 1..Len(stops) |-> dem[stops[k]]]

\* AddDimensionWithVehicleCapacity(demand_callback_index, 0, [capacity]*n, True,
\* 'Capacity'): the cumulated demand starts at zero, has no slack and stays
\* within [0, capacity] at every stop of the vehicle.
CapacityOk(stops, dem, capacity) ==
    \A k \in 1..Len(stops) :
        LET cumul == SumSeq(SubSeq(TransitsOf(stops, dem), 1, k))
        IN cumul >= 0 /\ cumul <= capacity

\* stops with node k inserted after position p (0 = in front)
InsertAt(stops, p, k) ==
    SubSeq(stops, 1, p) \o <<k>> \o SubSeq(stops, p + 1, Len(stops))

RECURSIVE Assignments(_, _, _, _, _)
\* every way to put the nodes 1..k on n vehicle slots, each node on exactly one
\* slot and once: RoutingIndexManager(n + 1, n, 0) with no disjunction added
\* makes every node mandatory.  With prune, a slot the capacity dimension
\* rejects is dropped as soon as it arises.
Assignments(k, n, dem, capacity, prune) ==
    IF k = 0 THEN {[v \in 1..n |-> <<>>]}
    ELSE UNION {
            { [a EXCEPT ![v] = InsertAt(a[v], p, k)] :
                p \in { q \in 0..Len(a[v]) :
                          prune => CapacityOk(InsertAt(a[v], q, k), dem, capacity) } }
            : <<a, v>> \in Assignments(k - 1, n, dem, capacity, prune) \X (1..n) }

\* the solutions routing.SolveWithParameters can return for n nodes.  When no
\* demand is negative every part of an allowed route is allowed, and the
\* assignments are built from allowed ones only.
Solutions(n, dem, capacity) ==
    LET prune == \A i \in 1..n : dem[i] >= 0 IN
    { a \in Assignments(n, n, dem, capacity, prune) :
        \A v \in 1..n : CapacityOk(a[v], dem, capacity) }

----------------------------------------------------------------------------
(* The script *)

\* Streamlit_app_1.py before a file is uploaded; Streamlit_app.py with its
\* table loaded and the selectbox on its first option
Init ==
    /\ app \in {App0, App1}
    /\ IF app = App1
       THEN /\ pc = "start"
            /\ tractor_capacity \in Capacities
            /\ df_full = EmptyFrame
            /\ biomass_type = None
       ELSE /\ pc = "ready"
            /\ tractor_capacity \in VehicleCapacities
            /\ df_full = [cols |-> data_columns, rows |-> data]
            /\ biomass_type = "Cotton"
    /\ df = EmptyFrame
    /\ demands = <<>>
    /\ num_vehicles = 0
    /\ solution = NoSolution
    /\ vehicle_id = 0
    /\ route = <<>>
    /\ load_this_route = 0
    /\ utilization = [num |-> 0, den |-> 1]
    /\ tractor_count = 1
    /\ route_data = <<>>
    /\ routes_found = 0
    /\ outcome = "none"

\* df_full['Biomass Type'].unique(), in order of first appearance
RECURSIVE UniqueTypes(_, _, _)
UniqueTypes(rows, column, seen) ==
    IF rows = <<>> THEN <<>>
    ELSE LET t == Head(rows)[column] IN
         IF t \in seen THEN UniqueTypes(Tail(rows), column, seen)
         ELSE <<t>> \o UniqueTypes(Tail(rows), column, seen \cup {t})

SeqRange(s) == { s[i] : i \in 1..Len(s) }

\* the file is read, its columns are validated and the selectbox is drawn
\* with its first option selected (no option: None)
Upload ==
    /\ app = App1
    /\ pc = "start"
    /\ \E cols \in ColumnSets, n \in 0..MaxRows :
       \E types \in [1..n -> BiomassTypes],
          kgs \in [1..n -> Quantities],
          bqs \in [1..n -> Quantities] :
          LET frame == MkFrame(cols, n, types, kgs, bqs) IN
          /\ ColKg \in cols => Len(SplitRows(frame.rows, tractor_capacity)) <= MaxNodes
          /\ df_full' = frame
          /\ IF ~(required_cols \subseteq frame.cols)
             THEN /\ outcome' = "invalid_columns"
                  /\ pc' = "done"
                  /\ biomass_type' = biomass_type
             ELSE /\ outcome' = outcome
                  /\ pc' = "ready"
                  /\ biomass_type' = IF frame.rows = <<>> THEN None
                                     ELSE Head(UniqueTypes(frame.rows, ColType, {}))
    /\ UNCHANGED <<app, tractor_capacity, df, demands, num_vehicles, solution,
                   vehicle_id, route, load_this_route, utilization, tractor_count,
                   route_data, routes_found>>

\* the user picks another option of the selectbox
SelectBiomassType ==
    /\ pc = "ready"
    /\ \E t \in SeqRange(UniqueTypes(df_full.rows, TypeCol(app), {})) :
          /\ t # biomass_type
          /\ biomass_type' = t
    /\ UNCHANGED <<app, pc, tractor_capacity, df_full, df, demands, num_vehicles,
                   solution, vehicle_id, route, load_this_route, utilization, tractor_count,
                   route_data, routes_found, outcome>>

\* df_full[df_full['Biomass Type'] == biomass_type].reset_index(drop=True)
FilterType(frame, column, t) ==
    [cols |-> frame.cols,
     rows |-> SelectSeq(frame.rows, LAMBDA r : r[column] = t)]

\* [0] + df[column].tolist(), indexed by node: 0 is the warehouse
DemandVector(frame, column) ==
    [i \in 0..Len(frame.rows) |-> IF i = 0 THEN 0 ELSE frame.rows[i][column]]

\* "Generate Routes" up to the demand vector; a column missing from df raises
\* KeyError, which the enclosing except turns into the error message
GenerateRoutes ==
    /\ app = App1
    /\ pc = "ready"
    /\ LET split == split_oversized_suppliers(FilterType(df_full, ColType, biomass_type),
                                              tractor_capacity)
       IN /\ df' = split
          /\ IF {ColLat, ColLon} \subseteq split.cols /\ ColBQ \in split.cols
             THEN /\ demands' = DemandVector(split, ColBQ)
                  /\ pc' = "solve"
                  /\ outcome' = outcome
             ELSE /\ demands' = demands
                  /\ pc' = "done"
                  /\ outcome' = "error"
    /\ UNCHANGED <<app, tractor_capacity, df_full, biomass_type, num_vehicles,
                   solution, vehicle_id, route, load_this_route, utilization,
                   tractor_count, route_data, routes_found>>

\* "Generate Routes" of Streamlit_app.py up to the demand vector
GenerateRoutes0 ==
    /\ app = App0
    /\ pc = "ready"
    /\ df' = FilterType(df_full, "Type", biomass_type)
    /\ demands' = DemandVector(df', "Quantity")
    /\ pc' = "solve"
    /\ UNCHANGED <<app, tractor_capacity, df_full, biomass_type, num_vehicles,
                   solution, vehicle_id, route, load_this_route, utilization,
                   tractor_count, route_data, routes_found, outcome>>

\* routing.SolveWithParameters returns a solution: one of the assignments the
\* capacity dimension allows (which one depends on the arc costs)
SolveFound ==
    /\ pc = "solve"
    /\ num_vehicles' = Len(df.rows)
    /\ solution' \in Solutions(Len(df.rows), demands, tractor_capacity)
    /\ tractor_count' = 1
    /\ route_data' = <<>>
    /\ vehicle_id' = 0
    /\ pc' = "loop"
    /\ UNCHANGED <<app, tractor_capacity, df_full, biomass_type, df, demands, route,
                   load_this_route, utilization, routes_found, outcome>>

\* routing.SolveWithParameters returns None: always when the capacity
\* dimension allows no assignment, and possibly when the heuristic search
\* finds nothing within its 10 second limit
SolveNone ==
    /\ pc = "solve"
    /\ num_vehicles' = Len(df.rows)
    /\ solution' = NoSolution
    /\ outcome' = "no_solution"
    /\ pc' = "done"
    /\ UNCHANGED <<app, tractor_capacity, df_full, biomass_type, df, demands,
                   vehicle_id, route, load_this_route, utilization, tractor_count,
                   route_data, routes_found>>

\* mutant of WalkRoute: the walk stops one node early
WalkRouteStopsEarly(sol, v) ==
    <<0>> \o SubSeq(sol[v + 1], 1, Len(sol[v + 1]) - 1) \o <<0>>

\* the walk from routing.Start(vehicle_id) to the end node: the warehouse, the
\* vehicle's stops, the warehouse
WalkRoute(sol, v) == <<0>> \o sol[v + 1] \o <<0>>

RECURSIVE LoadOf(_, _)
\* load_this_route over the nodes the while loop visits (the end node is
\* appended after the loop)
LoadOf(visited, dem) ==
    IF visited = <<>> THEN 0
    ELSE LET node_index == Head(visited) IN
         (IF node_index # 0 THEN dem[node_index] ELSE 0) + LoadOf(Tail(visited), dem)

\* (load_this_route / tractor_capacity) * 100, kept as an exact fraction
Utilization(load, capacity) == [num |-> load * 100, den |-> capacity]

\* mutant of BelowThreshold: a route at exactly 60% is flagged too
BelowOrAtThreshold(u) == u.num <= 60 * u.den

\* utilization < 60
BelowThreshold(u) == u.num < 60 * u.den

\* the row appended to route_data for stop stop_index (0-based) of a route
ResultRow(r, stop_index, u, count, frame) ==
    LET i == r[stop_index + 1] IN
    [Tractor   |-> IF stop_index = 0 THEN "Tractor " \o ToString(count) ELSE "",
     StopOrder |-> stop_index + 1,
     Name      |-> IF i = 0 THEN "Warehouse" ELSE frame.rows[i][ColName],
     Quantity  |-> IF i = 0 THEN 0 ELSE frame.rows[i][ColKg],
     Util      |-> IF stop_index = 0 THEN u ELSE [num |-> 0, den |-> 0],
     Highlight |-> BelowThreshold(u) /\ stop_index = 0]

\* mutant of NextTractorCount: every vehicle slot consumes a number
NextTractorCountEverySlot(count, r) == count + 1

\* tractor_count after a route: "tractor_count += 1" inside "if len(route) > 2"
NextTractorCount(count, r) == IF Len(r) > 2 THEN count + 1 ELSE count

\* one iteration of "for vehicle_id in range(num_vehicles)"
ExtractRoute ==
    /\ app = App1
    /\ pc = "loop"
    /\ vehicle_id < num_vehicles
    /\ LET r    == WalkRoute(solution, vehicle_id)
           load == LoadOf(SubSeq(r, 1, Len(r) - 1), demands)
           u    == Utilization(load, tractor_capacity)
       IN /\ route' = r
          /\ load_this_route' = load
          /\ IF Len(r) > 2
             THEN /\ utilization' = u
                  /\ route_data' = route_data \o
                        [k \in 1..Len(r) |-> ResultRow(r, k - 1, u, tractor_count, df)]
             ELSE UNCHANGED <<utilization, route_data>>
          /\ tractor_count' = NextTractorCount(tractor_count, r)
    /\ vehicle_id' = vehicle_id + 1
    /\ UNCHANGED <<app, pc, tractor_capacity, df_full, biomass_type, df, demands,
                   num_vehicles, solution, routes_found, outcome>>

\* route_load of Streamlit_app.py: the warehouse's demand is added as well
RouteLoad0(visited, dem) == SumSeq([k \in 1..Len(visited) |-> dem[visited[k]]])

\* the row Streamlit_app.py appends for stop stop_index (0-based) of a route
ResultRow0(r, stop_index, count, frame) ==
    LET i == r[stop_index + 1] IN
    [Tractor   |-> IF stop_index = 0 THEN count ELSE "",
     StopOrder |-> stop_index + 1,
     Name      |-> IF i = 0 THEN "Warehouse" ELSE frame.rows[i]["Name"],
     Quantity  |-> IF i = 0 THEN 0 ELSE frame.rows[i]["Quantity"]]

\* one iteration of the result loop of Streamlit_app.py
ExtractRoute0 ==
    /\ app = App0
    /\ pc = "loop"
    /\ vehicle_id < num_vehicles
    /\ LET r == WalkRoute(solution, vehicle_id) IN
       /\ route' = r
       /\ load_this_route' = RouteLoad0(SubSeq(r, 1, Len(r) - 1), demands)
       /\ IF Len(r) > 2
          THEN /\ route_data' = route_data \o
                     [k \in 1..Len(r) |-> ResultRow0(r, k - 1, tractor_count, df)]
          ELSE UNCHANGED route_data
       /\ tractor_count' = NextTractorCount(tractor_count, r)
    /\ vehicle_id' = vehicle_id + 1
    /\ UNCHANGED <<app, pc, tractor_capacity, df_full, biomass_type, df, demands,
                   num_vehicles, solution, utilization, routes_found, outcome>>

\* st.success(f"Found {tractor_count - 1} optimized routes.")
ShowRoutes ==
    /\ pc = "loop"
    /\ vehicle_id = num_vehicles
    /\ routes_found' = tractor_count - 1
    /\ outcome' = "success"
    /\ pc' = "done"
    /\ UNCHANGED <<app, tractor_capacity, df_full, biomass_type, df, demands,
                   num_vehicles, solution, vehicle_id, route, load_this_route,
                   utilization, tractor_count, route_data>>

Next ==
    \/ Upload
    \/ SelectBiomassType
    \/ GenerateRoutes
    \/ GenerateRoutes0
    \/ SolveFound
    \/ SolveNone
    \/ ExtractRoute
    \/ ExtractRoute0
    \/ ShowRoutes

Spec == Init /\ [][Next]_vars

----------------------------------------------------------------------------
(* split_oversized_suppliers on its own: any list of demands, any capacity the *)
(* number_input allows                                                        *)

InitSplit ==
    /\ app = App1
    /\ pc = "split_in"
    /\ tractor_capacity \in SplitCapacities
    /\ \E n \in 0..MaxLen :
       \E kgs \in [1..n -> SplitQuantities] :
          df_full = MkFrame(required_cols, n, [i \in 1..n |-> "Cotton"], kgs, kgs)
    /\ biomass_type = None
    /\ df = EmptyFrame
    /\ demands = <<>>
    /\ num_vehicles = 0
    /\ solution = NoSolution
    /\ vehicle_id = 0
    /\ route = <<>>
    /\ load_this_route = 0
    /\ utilization = [num |-> 0, den |-> 1]
    /\ tractor_count = 1
    /\ route_data = <<>>
    /\ routes_found = 0
    /\ outcome = "none"

\* df = split_oversized_suppliers(df, tractor_capacity): the function has no
\* raise statement and returns its frame
ApplySplit ==
    /\ pc = "split_in"
    /\ df' = split_oversized_suppliers(df_full, tractor_capacity)
    /\ outcome' = "returned"
    /\ pc' = "split_out"
    /\ UNCHANGED <<app, tractor_capacity, df_full, biomass_type, demands, num_vehicles,
                   solution, vehicle_id, route, load_this_route, utilization,
                   tractor_count, route_data, routes_found>>

NextSplit == ApplySplit

SpecSplit == InitSplit /\ [][NextSplit]_vars

----------------------------------------------------------------------------
(* Properties of the splitter (checked under SpecSplit) *)

\* the rows of the split frame that come from input row j: a chunk is a copy
\* of its row and keeps the row's coordinates, which MkRow makes unique
ChunksOf(j) == SelectSeq(df.rows, LAMBDA r : r[ColLat] = j /\ r[ColLon] = j)

KgOf(rows) == [k \in 1..Len(rows) |-> rows[k][ColKg]]

\* C1: for every demand list and positive capacity c, the chunks emitted for
\* an original demand of quantity q > 0 sum exactly to q, and each of them
\* lies in (0, c]; every emitted row is a chunk of some original demand.
C1_ChunksSumToOriginal ==
    pc = "split_out" =>
        /\ \A k \in 1..Len(df.rows) : df.rows[k][ColLat] \in 1..Len(df_full.rows)
        /\ \A j \in 1..Len(df_full.rows) :
              LET q == df_full.rows[j][ColKg] IN
              q > 0 =>
                 /\ SumSeq(KgOf(ChunksOf(j))) = q
                 /\ \A k \in 1..Len(ChunksOf(j)) :
                       /\ ChunksOf(j)[k][ColKg] > 0
                       /\ ChunksOf(j)[k][ColKg] <= tractor_capacity

\* a demand above the capacity with a remainder has been split
C1_Witness ==
    /\ pc = "split_out"
    /\ \E j \in 1..Len(df_full.rows) :
          /\ df_full.rows[j][ColKg] > tractor_capacity
          /\ df_full.rows[j][ColKg] % tractor_capacity # 0
          /\ Len(ChunksOf(j)) >= 3

\* C2: a demand q <= c is emitted once, unchanged and unlabeled; a demand
\* q > c is emitted as floor(q/c) chunks of quantity c labeled Split-1..Split-k
\* in increasing order, followed by one remainder chunk of q mod c exactly when
\* q mod c is not zero; chunks appear in the order of their original demands
\* (4500 at capacity 2000 gives 2000, 2000, 500).
C2_SplitPolicy ==
    pc = "split_out" =>
        /\ \A a, b \in 1..Len(df.rows) : a < b => df.rows[a][ColLat] <= df.rows[b][ColLat]
        /\ \A j \in 1..Len(df_full.rows) :
              LET row    == df_full.rows[j]
                  q      == row[ColKg]
                  c      == tractor_capacity
                  chunks == ChunksOf(j)
              IN IF q <= c
                 THEN chunks = <<row>>
                 ELSE LET k == q \div c IN
                      /\ Len(chunks) = k + (IF q % c # 0 THEN 1 ELSE 0)
                      /\ \A i \in 1..k :
                            chunks[i] = [row EXCEPT
                                ![ColKg] = c,
                                ![ColName] = row[ColName] \o " (Split-" \o ToString(i) \o ")"]
                      /\ q % c # 0 =>
                            chunks[k + 1] = [row EXCEPT
                                ![ColKg] = q % c,
                                ![ColName] = row[ColName] \o " (Split-R)"]
        /\ (tractor_capacity = 2000 /\ KgOf(df_full.rows) = <<4500>>)
              => KgOf(df.rows) = <<2000, 2000, 500>>

\* 4500 at capacity 2000 next to a demand that passes through
C2_Witness ==
    /\ pc = "split_out"
    /\ tractor_capacity = 2000
    /\ KgOf(df_full.rows) = <<4500, 250>>
    /\ KgOf(df.rows) = <<2000, 2000, 500, 250>>

\* C3: the splitter fails with InvalidCapacity when the capacity is <= 0 and
\* with InvalidQuantity when a demand quantity is <= 0; it then returns no chunk
\* list, and no input demand is missing from its output.
C3_SplitterRejectsInvalidInput ==
    pc = "split_out" =>
        /\ tractor_capacity <= 0 => outcome = "InvalidCapacity"
        /\ (\E j \in 1..Len(df_full.rows) : df_full.rows[j][ColKg] <= 0)
              => outcome = "InvalidQuantity"
        /\ outcome = "returned" => \A j \in 1..Len(df_full.rows) : ChunksOf(j) # <<>>

----------------------------------------------------------------------------
(* Properties of a run (checked under Spec) *)

\* "Generate Routes" has been pressed
Pressed ==
    \/ pc \in {"solve", "loop"}
    \/ pc = "done" /\ outcome \in {"error", "no_solution", "success"}

\* the stops of the vehicle slots walked so far that have a stop
NonEmptySlots(n) ==
    SelectSeq([v \in 1..n |-> solution[v]], LAMBDA stops : stops # <<>>)

RECURSIVE RowsBefore(_, _)
\* the number of result rows of the first k - 1 routes of ne
RowsBefore(ne, k) ==
    IF k <= 1 THEN 0 ELSE RowsBefore(ne, k - 1) + Len(ne[k - 1]) + 2

\* the non-empty routes of a success and the result rows of the k-th of them
ReportedRoutes == NonEmptySlots(num_vehicles)
RowsOfRoute(k) ==
    SubSeq(route_data, RowsBefore(ReportedRoutes, k) + 1, RowsBefore(ReportedRoutes, k + 1))

\* the rows of the result table naming the supplier of node i
RowsOfNode(i) ==
    { k \in 1..Len(route_data) : route_data[k].Name = df.rows[i][NameCol(app)] }

\* C4: when a solve is reported as success, every demand node 1..N appears in
\* exactly one row of the reported routes, and the reported routes hold no
\* other stop than these and the warehouse.
C4_EveryNodeOnExactlyOneRoute ==
    outcome = "success" =>
        /\ \A i \in 1..Len(df.rows) : Cardinality(RowsOfNode(i)) = 1
        /\ Cardinality({ k \in 1..Len(route_data) : route_data[k].Name # "Warehouse" })
              = Len(df.rows)

\* a success of Streamlit_app_1.py on split nodes, with an unused vehicle slot
\* and a route of several stops
C4_Witness ==
    /\ app = App1
    /\ outcome = "success"
    /\ Len(df.rows) > Len(FilterType(df_full, ColType, biomass_type).rows)
    /\ \E v \in 1..num_vehicles : solution[v] = <<>>
    /\ \E v \in 1..num_vehicles : Len(solution[v]) >= 2

\* C5: in every solve reported as success, the load of each route, summed
\* over the quantities reported for its stops, is at most the capacity (1500
\* and 600 never share a route at capacity 2000).
C5_ReportedLoadWithinCapacity ==
    outcome = "success" =>
        \A k \in 1..Len(ReportedRoutes) :
            SumSeq([m \in 1..Len(RowsOfRoute(k)) |-> RowsOfRoute(k)[m].Quantity])
                <= tractor_capacity

\* C6: once splitting has run on positive quantities, the fleet has one
\* vehicle per split node and no node is above the capacity, so the solve
\* never ends without a solution because of an oversized demand.
C6_NoOversizedDemandAfterSplit ==
    (app = App1 /\ Pressed /\ outcome # "error") =>
        /\ \A i \in 1..Len(df.rows) : df.rows[i][ColKg] <= tractor_capacity
        /\ pc \in {"loop", "done"} => num_vehicles = Len(df.rows)
        /\ ~(outcome = "no_solution"
             /\ \E i \in 1..Len(df.rows) : demands[i] > tractor_capacity)

\* the Tractor cell of the first row of route k
TractorCell(k) == IF app = App1 THEN "Tractor " \o ToString(k) ELSE k

\* C7: the reported routes are numbered 1, 2, 3, ... without gaps in vehicle
\* slot order; a slot with a depot-only route adds no rows and uses no number,
\* and the count shown equals the number of non-empty routes.
C7_RoutesNumberedInSlotOrder ==
    (pc = "loop" \/ outcome = "success") =>
        LET ne == NonEmptySlots(vehicle_id) IN
        /\ tractor_count = Len(ne) + 1
        /\ Len(route_data) = RowsBefore(ne, Len(ne) + 1)
        /\ \A k \in 1..Len(ne) :
              LET first == RowsBefore(ne, k) + 1 IN
              /\ route_data[first].Tractor = TractorCell(k)
              /\ route_data[first].Name = "Warehouse"
              /\ \A m \in 1..Len(ne[k]) :
                    /\ route_data[first + m].Tractor = ""
                    /\ route_data[first + m].Name = df.rows[ne[k][m]][NameCol(app)]
              /\ route_data[first + Len(ne[k]) + 1].Tractor = ""
              /\ route_data[first + Len(ne[k]) + 1].Name = "Warehouse"
        /\ outcome = "success" =>
              /\ vehicle_id = num_vehicles
              /\ routes_found = Len(NonEmptySlots(num_vehicles))

\* a success whose first vehicle slot is unused and is followed by two routes
C7_Witness ==
    /\ outcome = "success"
    /\ solution[1] = <<>>
    /\ routes_found >= 2

C9_NoDemandsSucceeds ==
    (/\ pc = "done"
     /\ outcome # "invalid_columns"
     /\ FilterType(df_full, TypeCol(app), biomass_type).rows = <<>>)
        => outcome = "success" /\ route_data = <<>>

\* C10: for every table that passes the column validation, the demand vector
\* of Streamlit_app_1.py is [0] followed by the quantities of the split
\* demands, the quantities reported per stop, and the run reaches the solver
\* instead of the error outcome.
C10_DemandsAreSplitQuantities ==
    (app = App1 /\ Pressed) =>
        /\ outcome # "error"
        /\ demands = DemandVector(df, ColKg)

====
